---- MODULE Spec2Model ----
(***************************************************************************)
(* Randomize7: a recording of microphone noise is conditioned (DC offset   *)
(* removal, normalisation), bytes are extracted from the low bits of       *)
(* sample differences, and two bit-level tests report a verdict.           *)
(*                                                                         *)
(* The module models src/src/main.rs:                                      *)
(*   - f32 arithmetic as IEEE-754 binary32, round to nearest even, on      *)
(*     the bit fields (sign, biased exponent, mantissa);                   *)
(*   - the pure functions remove_dc_offset, normalize_audio,               *)
(*     extract_random_data, print_random_data_as_hex, monobit_test,        *)
(*     runs_test and f32_to_u8 as operators;                               *)
(*   - main and the input stream's data callback as two threads sharing    *)
(*     the Mutex-guarded recording.                                        *)
(***************************************************************************)
EXTENDS Integers, Sequences, FiniteSets, TLC

VARIABLES
    nanSign,      \* sign bit of a NaN the target's FPU generates (0 or 1)
    overflowChecks, \* TRUE: debug build (integer overflow panics); FALSE: release (wraps)
    recording,    \* the Vec<f32> inside Arc<Mutex<..>>
    lockOwner,    \* "none" | "main" | "cb": who holds the MutexGuard
    poisoned,     \* the Mutex was poisoned by a panic of its holder
    cbPc,         \* callback thread: "idle" | "lock" | "push" | "panicked"
    cbLeft,       \* samples of the current data slice not yet visited by the for loop
    cbCalls,      \* callback invocations so far
    mainPc,       \* main thread: the statement it executes next
    raw,          \* the recording as main found it when it took the lock
    random_data,  \* main's local random_data
    rec,          \* main's local rec
    mono_score,   \* main's local mono_score
    runs_score,   \* main's local runs_score
    stdout,       \* the lines printed so far
    fn,           \* function-level specifications: which function is being applied
    arg,          \* function-level specifications: its arguments
    ret,          \* function-level specifications: its result
    scan          \* function-level specifications: the state of runs_test's loop

vars == <<nanSign, overflowChecks, recording, lockOwner, poisoned, cbPc, cbLeft,
          cbCalls, mainPc, raw, random_data, rec, mono_score, runs_score, stdout,
          fn, arg, ret, scan>>

-----------------------------------------------------------------------------
(* f32: IEEE-754 binary32 as its three bit fields.                         *)

P2(n) == 2 ^ n

F32(s, e, m) == [s |-> s, e |-> e, m |-> m]

IsNaN(x) == x.e = 255 /\ x.m # 0
IsInf(x) == x.e = 255 /\ x.m = 0
IsZero(x) == x.e = 0 /\ x.m = 0

\* The NaN an invalid operation generates: quiet, zero payload, the sign the
\* target picks (x86 SSE: 1, ARM/RISC-V: 0).
GenNaN == F32(nanSign, 255, P2(22))

\* A NaN operand is returned with its quiet bit set.
Quiet(x) == F32(x.s, 255, IF x.m < P2(22) THEN x.m + P2(22) ELSE x.m)

\* significand with the hidden bit, and the exponent it is scaled by
Sig(x) == IF x.e = 0 THEN x.m ELSE x.m + P2(23)
Exp(x) == IF x.e = 0 THEN 1 ELSE x.e

\* s shifted right by k bits, every bit shifted out OR-ed into bit 0
ShiftRightSticky(s, k) ==
    IF k <= 0 THEN s
    ELSE IF k >= 30 THEN (IF s # 0 THEN 1 ELSE 0)
    ELSE LET q == s \div P2(k)
             r == s % P2(k)
         IN IF r # 0 /\ q % 2 = 0 THEN q + 1 ELSE q

\* <<sig, exp>> shifted left until sig >= target (sig > 0)
RECURSIVE NormLeft(_, _, _)
NormLeft(sig, exp, target) ==
    IF sig >= target THEN <<sig, exp>> ELSE NormLeft(2 * sig, exp - 1, target)

\* The binary32 nearest to (-1)^s * S * 2^(E - 153), ties to even; 0 <= S < 2^27.
RoundPack(s, E, S) ==
    IF S = 0 THEN F32(s, 0, 0)
    ELSE LET n  == NormLeft(S, E, P2(26))
             S2 == IF n[2] < 1 THEN ShiftRightSticky(n[1], 1 - n[2]) ELSE n[1]
             E2 == IF n[2] < 1 THEN 1 ELSE n[2]
             q  == S2 \div 8
             r  == S2 % 8
             q1 == IF r > 4 \/ (r = 4 /\ q % 2 = 1) THEN q + 1 ELSE q
             E3 == IF q1 >= P2(24) THEN E2 + 1 ELSE E2
             q2 == IF q1 >= P2(24) THEN q1 \div 2 ELSE q1
         IN IF E3 >= 255 THEN F32(s, 255, 0)
            ELSE IF q2 >= P2(23) THEN F32(s, E3, q2 - P2(23))
            ELSE F32(s, 0, q2)

Neg(x) == F32(1 - x.s, x.e, x.m)
Abs(x) == F32(0, x.e, x.m)

\* x + y for finite non-zero x, y
AddFinite(x, y) ==
    LET Ex == Exp(x)
        Ey == Exp(y)
        E  == IF Ex >= Ey THEN Ex ELSE Ey
        Sx == ShiftRightSticky(Sig(x) * 8, E - Ex)
        Sy == ShiftRightSticky(Sig(y) * 8, E - Ey)
    IN IF x.s = y.s
       THEN LET S == Sx + Sy
            IN IF S >= P2(27) THEN RoundPack(x.s, E + 1, ShiftRightSticky(S, 1))
               ELSE RoundPack(x.s, E, S)
       ELSE IF Sx = Sy THEN F32(0, 0, 0)
       ELSE IF Sx > Sy THEN RoundPack(x.s, E, Sx - Sy)
       ELSE RoundPack(y.s, E, Sy - Sx)

Add(x, y) ==
    IF IsNaN(x) THEN Quiet(x)
    ELSE IF IsNaN(y) THEN Quiet(y)
    ELSE IF IsInf(x) THEN (IF IsInf(y) /\ x.s # y.s THEN GenNaN ELSE x)
    ELSE IF IsInf(y) THEN y
    ELSE IF IsZero(x) /\ IsZero(y) THEN F32(IF x.s = 1 /\ y.s = 1 THEN 1 ELSE 0, 0, 0)
    ELSE IF IsZero(x) THEN y
    ELSE IF IsZero(y) THEN x
    ELSE AddFinite(x, y)

Sub(x, y) ==
    IF IsNaN(x) THEN Quiet(x)
    ELSE IF IsNaN(y) THEN Quiet(y)
    ELSE Add(x, Neg(y))

\* x * y for finite non-zero x, y: the 48-bit product from 12-bit halves
MulFinite(x, y) ==
    LET a   == NormLeft(Sig(x), Exp(x), P2(23))
        b   == NormLeft(Sig(y), Exp(y), P2(23))
        ah  == a[1] \div 4096
        al  == a[1] % 4096
        bh  == b[1] \div 4096
        bl  == b[1] % 4096
        mid == ah * bl + al * bh
        lo  == (mid % 4096) * 4096 + al * bl
        hi  == ah * bh + mid \div 4096 + lo \div P2(24)
        low == lo % P2(24)
        t   == hi * 16 + low \div P2(20)
        S28 == IF low % P2(20) # 0 /\ t % 2 = 0 THEN t + 1 ELSE t
        E   == a[2] + b[2] - 127
        s   == IF x.s = y.s THEN 0 ELSE 1
    IN IF S28 >= P2(27) THEN RoundPack(s, E + 1, ShiftRightSticky(S28, 1))
       ELSE RoundPack(s, E, S28)

Mul(x, y) ==
    LET s == IF x.s = y.s THEN 0 ELSE 1
    IN IF IsNaN(x) THEN Quiet(x)
       ELSE IF IsNaN(y) THEN Quiet(y)
       ELSE IF IsInf(x) \/ IsInf(y)
            THEN (IF IsZero(x) \/ IsZero(y) THEN GenNaN ELSE F32(s, 255, 0))
       ELSE IF IsZero(x) \/ IsZero(y) THEN F32(s, 0, 0)
       ELSE MulFinite(x, y)

\* long division: the quotient bits of r / b, most significant first
RECURSIVE DivBits(_, _, _, _)
DivBits(r, b, q, k) ==
    IF k = 0 THEN <<q, r>>
    ELSE IF r >= b THEN DivBits(2 * (r - b), b, 2 * q + 1, k - 1)
    ELSE DivBits(2 * r, b, 2 * q, k - 1)

\* x / y for finite non-zero x, y
DivFinite(x, y) ==
    LET a  == NormLeft(Sig(x), Exp(x), P2(23))
        b  == NormLeft(Sig(y), Exp(y), P2(23))
        lt == a[1] < b[1]
        A  == IF lt THEN 2 * a[1] ELSE a[1]
        E  == a[2] - b[2] + 127 - (IF lt THEN 1 ELSE 0)
        d  == DivBits(A, b[1], 0, 26)
        S  == 2 * d[1] + (IF d[2] # 0 THEN 1 ELSE 0)
        s  == IF x.s = y.s THEN 0 ELSE 1
    IN RoundPack(s, E, S)

Div(x, y) ==
    LET s == IF x.s = y.s THEN 0 ELSE 1
    IN IF IsNaN(x) THEN Quiet(x)
       ELSE IF IsNaN(y) THEN Quiet(y)
       ELSE IF IsInf(x) THEN (IF IsInf(y) THEN GenNaN ELSE F32(s, 255, 0))
       ELSE IF IsInf(y) THEN F32(s, 0, 0)
       ELSE IF IsZero(y) THEN (IF IsZero(x) THEN GenNaN ELSE F32(s, 255, 0))
       ELSE IF IsZero(x) THEN F32(s, 0, 0)
       ELSE DivFinite(x, y)

\* n as f32, for 0 <= n < 2^24 (exact there)
FromUsize(n) == RoundPack(0, 150, n * 8)

\* x < y on non-NaN values
Lt(x, y) ==
    LET kx == x.e * P2(23) + x.m
        ky == y.e * P2(23) + y.m
    IN IF IsZero(x) /\ IsZero(y) THEN FALSE
       ELSE IF x.s # y.s THEN x.s = 1
       ELSE IF x.s = 0 THEN kx < ky
       ELSE ky < kx

\* f32::max: a NaN argument is ignored
Max(x, y) ==
    IF IsNaN(x) THEN y
    ELSE IF IsNaN(y) THEN x
    ELSE IF Lt(x, y) THEN y ELSE x

\* f32::MIN, the fold's initial value
F32_MIN == F32(1, 254, P2(23) - 1)

\* 1.0, the max_level main passes
One == F32(0, 127, 0)

\* f32::to_bits, as the four bytes of the pattern, least significant first
BitsBytes(x) ==
    << x.m % 256,
       (x.m \div 256) % 256,
       (x.e % 2) * 128 + x.m \div 65536,
       x.s * 128 + x.e \div 2 >>

-----------------------------------------------------------------------------
(* Integer helpers: u8 / u32 bit operations.                               *)

\* bitwise AND of naturals
RECURSIVE BitAnd(_, _)
BitAnd(a, b) ==
    IF a = 0 \/ b = 0 THEN 0
    ELSE (a % 2) * (b % 2) + 2 * BitAnd(a \div 2, b \div 2)

\* u32::count_ones / u8::count_ones
RECURSIVE count_ones(_)
count_ones(b) == IF b = 0 THEN 0 ELSE (b % 2) + count_ones(b \div 2)

\* f32::to_bits as a u32 in two 16-bit halves <<high, low>>
to_bits(x) == << x.s * 32768 + x.e * 128 + x.m \div 65536, x.m % 65536 >>

\* variant: the mask one bit too wide, (1 << (num_lsb + 1)) - 1
LsbMaskTooWide(num_lsb) == << 0, P2(num_lsb + 1) - 1 >>

\* (1 << num_lsb) - 1 as a u32 in two 16-bit halves, num_lsb < 32
LsbMask(num_lsb) ==
    IF num_lsb >= 16 THEN << P2(num_lsb - 16) - 1, 65535 >>
    ELSE << 0, P2(num_lsb) - 1 >>

\* a & b on u32 halves
And32(a, b) == << BitAnd(a[1], b[1]), BitAnd(a[2], b[2]) >>

\* v as u8 for a u32 in halves: the low eight bits
AsU8(v) == v[2] % 256

\* Rust's 0-based indexing of a slice
At(v, i) == v[i + 1]

-----------------------------------------------------------------------------
(* The conditioner.                                                        *)

\* samples.iter().sum::<f32>(): a left fold of + from 0.0 (from -0.0 in newer
\* standard libraries: the same sum unless every sample is -0.0, which the
\* captured values exclude; an empty sum divided by 0.0 is NaN either way)
RECURSIVE SumFrom(_, _, _)
SumFrom(samples, i, acc) ==
    IF i > Len(samples) THEN acc ELSE SumFrom(samples, i + 1, Add(acc, samples[i]))

Mean(samples) == Div(SumFrom(samples, 1, F32(0, 0, 0)), FromUsize(Len(samples)))

remove_dc_offset(samples) ==
    LET mean == Mean(samples)
    IN [i \in 1..Len(samples) |-> Sub(samples[i], mean)]

\* samples.iter().cloned().map(f32::abs).fold(f32::MIN, f32::max)
RECURSIVE MaxAbsFrom(_, _, _)
MaxAbsFrom(samples, i, acc) ==
    IF i > Len(samples) THEN acc
    ELSE MaxAbsFrom(samples, i + 1, Max(acc, Abs(samples[i])))

MaxSample(samples) == MaxAbsFrom(samples, 1, F32_MIN)

NormalizationFactor(samples, max_level) == Div(max_level, MaxSample(samples))

normalize_audio(samples, max_level) ==
    LET normalization_factor == NormalizationFactor(samples, max_level)
    IN [i \in 1..Len(samples) |-> Mul(samples[i], normalization_factor)]

-----------------------------------------------------------------------------
(* The extractor.  A call ends "ok" with the bytes, or "panic" (the        *)
(* process aborts; nothing is returned).  reads collects the 0-based       *)
(* indices the loop read.                                                  *)

Panic(msg, reads) == [outcome |-> "panic", msg |-> msg, data |-> <<>>, reads |-> reads]
Ok(data, reads) == [outcome |-> "ok", msg |-> "", data |-> data, reads |-> reads]

\* usize::MAX; only its quotient by output_length being positive is used
\* (the wrapped len - 1 of an empty slice), so the largest integer TLC
\* represents stands for it.
USIZE_MAX == P2(30) + (P2(30) - 1)

\* samples.len() - 1 in a release build (wrapping)
LenMinusOne(len) == IF len = 0 THEN USIZE_MAX ELSE len - 1

\* variant: the stride rounded up instead of down
samples_per_byte_rounded_up(len, output_length) ==
    IF len = 0 THEN LenMinusOne(len) \div output_length
    ELSE (len - 1 + output_length - 1) \div output_length

samples_per_byte(len, output_length) == LenMinusOne(len) \div output_length

\* one iteration's byte: the low num_lsb bits of the difference's pattern
ExtractByte(samples, i, num_lsb) ==
    LET difference == Sub(At(samples, i), At(samples, i - 1))
        difference_as_int == to_bits(difference)
        lsb_bits == And32(difference_as_int, LsbMask(num_lsb))
    IN AsU8(lsb_bits)

\* the first index of (1..samples.len()).step_by(samples_per_byte)
FirstIndex == 1

\* for i in (1..samples.len()).step_by(step) { ... }, from index i on
RECURSIVE ExtractLoop(_, _, _, _, _, _, _)
ExtractLoop(samples, num_lsb, output_length, step, i, random_data_, reads) ==
    IF i >= Len(samples) THEN Ok(random_data_, reads)
    ELSE IF i - 1 < 0 THEN Panic("index i - 1 is below 0", reads)
    ELSE LET pushed == Append(random_data_, ExtractByte(samples, i, num_lsb))
             seen   == reads \cup {i, i - 1}
         IN IF Len(pushed) >= output_length THEN Ok(pushed, seen)
            ELSE ExtractLoop(samples, num_lsb, output_length, step, i + step, pushed, seen)

extract_random_data(samples, num_lsb, output_length) ==
    IF Len(samples) = 0 /\ overflowChecks
    THEN Panic("attempt to subtract with overflow", {})
    ELSE IF output_length = 0 THEN Panic("attempt to divide by zero", {})
    ELSE LET step == samples_per_byte(Len(samples), output_length)
         IN IF step = 0 THEN Panic("assertion failed: step != 0", {})
            ELSE ExtractLoop(samples, num_lsb, output_length, step, FirstIndex, <<>>, {})

-----------------------------------------------------------------------------
(* Output formatting.                                                      *)

HexDigit(d) == At(<<"0", "1", "2", "3", "4", "5", "6", "7", "8", "9",
                    "a", "b", "c", "d", "e", "f">>, d)

\* format!("{:02x}", byte)
Hex02(byte) == << HexDigit(byte \div 16), HexDigit(byte % 16) >>

RECURSIVE HexString(_)
HexString(bytes) ==
    IF bytes = <<>> THEN <<>> ELSE Hex02(Head(bytes)) \o HexString(Tail(bytes))

\* the line print_random_data_as_hex writes
print_random_data_as_hex(bytes) == << "Random data (hex): ", HexString(bytes) >>

\* LittleEndian::write_f32 of every value, concatenated
RECURSIVE f32_to_u8(_)
f32_to_u8(data) ==
    IF data = <<>> THEN <<>> ELSE BitsBytes(Head(data)) \o f32_to_u8(Tail(data))

-----------------------------------------------------------------------------
(* The tester.                                                             *)

RECURSIVE BitCount(_)
BitCount(data) ==
    IF data = <<>> THEN 0 ELSE count_ones(Head(data)) + BitCount(Tail(data))

\* 0.45 < proportion && proportion < 0.55 with proportion the f64 nearest
\* to bit_count / total_bits.  0 / 0 is NaN and both comparisons are false.
\* Otherwise rounding is monotone and bit_count / total_bits is either equal
\* to 9/20 (11/20), for which it rounds to the literal itself, or at least
\* 1 / (20 * total_bits) away from it, which exceeds an f64 ulp for every
\* total_bits below 2^48: the comparison of the rationals decides.
\* variant: the band with its ends included
InBandInclusive(bit_count, total_bits) ==
    /\ total_bits # 0
    /\ 45 * total_bits <= 100 * bit_count
    /\ 100 * bit_count <= 55 * total_bits

InBand(bit_count, total_bits) ==
    /\ total_bits # 0
    /\ 45 * total_bits < 100 * bit_count
    /\ 100 * bit_count < 55 * total_bits

monobit_test(data) ==
    LET bit_count  == BitCount(data)
        total_bits == Len(data) * 8
    IN InBand(bit_count, total_bits)

\* runs_test's loop state before the first bit
RunsStart(data) ==
    [ prev_bit    |-> BitAnd(At(data, 0), 128),
      run_count   |-> 0,
      run_lengths |-> <<0, 0, 0, 0, 0, 0>> ]

\* byte & (0x80 >> i)
BitOf(byte, i) == BitAnd(byte, 128 \div P2(i))

\* variant: every counted transition lands in bucket 0
TransitionFirstBucket(st, bit) ==
    LET rc == st.run_count + 1
    IN [ prev_bit    |-> bit,
         run_count   |-> rc,
         run_lengths |-> IF rc <= 6
                         THEN [st.run_lengths EXCEPT ![1] = @ + 1]
                         ELSE st.run_lengths ]

\* the branch taken when the bit differs from prev_bit
Transition(st, bit) ==
    LET rc == st.run_count + 1
    IN [ prev_bit    |-> bit,
         run_count   |-> rc,
         run_lengths |-> IF rc <= 6
                         THEN [st.run_lengths EXCEPT ![rc] = @ + 1]
                         ELSE st.run_lengths ]

\* the body of the inner loop for one bit
RunsStep(st, bit) == IF bit # st.prev_bit THEN Transition(st, bit) ELSE st

\* for i in 0..8 { ... } on one byte, from bit i on
RECURSIVE RunsBits(_, _, _)
RunsBits(st, byte, i) ==
    IF i >= 8 THEN st
    ELSE IF BitOf(byte, i) # st.prev_bit
         THEN RunsBits(Transition(st, BitOf(byte, i)), byte, i + 1)
         ELSE RunsBits(st, byte, i + 1)

\* for &byte in data { ... }, from byte j on
RECURSIVE RunsBytes(_, _, _)
RunsBytes(data, j, st) ==
    IF j >= Len(data) THEN st
    ELSE RunsBytes(data, j + 1, RunsBits(st, At(data, j), 0))

Absolute(d) == IF d < 0 THEN -d ELSE d

\* p_value < 1.96 with p_value = |2 * run_lengths[0] - n| / (2 * sqrt(n)) in
\* f64, n > 0.  Squared: 10000 * d^2 < 153664 * n.  The two sides are
\* integers, equal only if n is a multiple of 10000; otherwise p_value is
\* at least a relative 1 / (307328 * n) away from 1.96 while sqrt, the
\* division and the literal are each within 2^-53: below 10000 bits the
\* comparison of the integers decides.
PValueBelow(first_bucket, n) ==
    LET d == Absolute(2 * first_bucket - n)
    IN 10000 * d * d < 153664 * n

RunsVerdict(st, n) == PValueBelow(At(st.run_lengths, 0), n)

\* a call of runs_test: "ok" with the verdict, or the panic of data[0]
runs_test(data) ==
    IF Len(data) = 0
    THEN [outcome |-> "panic", msg |-> "index out of bounds", value |-> FALSE]
    ELSE [outcome |-> "ok", msg |-> "",
          value |-> RunsVerdict(RunsBytes(data, 0, RunsStart(data)), Len(data) * 8)]

-----------------------------------------------------------------------------
(* Bounds of the model and the values it draws inputs from.                *)

\* record_duration_samples = sample_rate * RECORD_DURATION_SECS (88200 at
\* 44.1 kHz), scaled down
RecordDurationSamples == 3
\* the longest data slice one callback invocation delivers
MaxChunk == 2
\* callback invocations in one run
MaxCalls == 3
\* main's output_length (32 in the source), scaled down with the recording
OutputLength == 2
\* main's num_lsb
NumLsb == 8

\* function-level bounds
MaxSamples == 5
MaxOutputLength == 5
MaxMonobitBytes == 5
MaxRunsBytes == 3

SeqsUpTo(S, n) == UNION {[1..k -> S] : k \in 0..n}

\* samples the device delivers: 0.0 (digital silence), 0.1, -0.25
CapturedValues == { F32(0, 0, 0), F32(0, 123, 5033165), F32(1, 125, 0) }

\* conditioned samples handed to the extractor: 1.0, 0.1, -0.7
ExtractValues == { F32(0, 127, 0), F32(0, 123, 5033165), F32(1, 126, 3355443) }

\* bytes handed to the tests: 0x00, 0xFF, 0xAA, 0x55, 0x07
ByteValues == { 0, 255, 170, 85, 7 }

NoRet == [outcome |-> "pending"]
NoScan == [pc |-> "none"]

-----------------------------------------------------------------------------
(* main and the input stream's data callback.                              *)

Line(text, payload) == << text, payload >>
Bool(b) == IF b THEN <<"true">> ELSE <<"false">>

Init ==
    /\ nanSign \in {0, 1}
    /\ overflowChecks \in BOOLEAN
    /\ recording = <<>>
    /\ lockOwner = "none"
    /\ poisoned = FALSE
    /\ cbPc = "idle"
    /\ cbLeft = 0
    /\ cbCalls = 0
    /\ mainPc = "play"
    /\ raw = <<>>
    /\ random_data = <<>>
    /\ rec = <<>>
    /\ mono_score = FALSE
    /\ runs_score = FALSE
    /\ stdout = <<>>
    /\ fn = "main"
    /\ arg = <<>>
    /\ ret = NoRet
    /\ scan = NoScan

buildVars == <<nanSign, overflowChecks>>
fnVars == <<fn, arg, ret, scan>>
cbVars == <<cbPc, cbLeft, cbCalls>>
mainLocals == <<raw, random_data, rec, mono_score, runs_score>>

\* the stream is playing: after input_stream.play(), until it is dropped
StreamRuns == mainPc \notin {"play", "exit"}

\* the driver calls the data callback with a slice of n samples
CbInvoke ==
    /\ StreamRuns
    /\ cbPc = "idle"
    /\ cbCalls < MaxCalls
    /\ \E n \in 1..MaxChunk : cbLeft' = n
    /\ cbPc' = "lock"
    /\ cbCalls' = cbCalls + 1
    /\ UNCHANGED <<buildVars, fnVars, mainLocals, recording, lockOwner, poisoned,
                   mainPc, stdout>>

\* variant: the callback writes without taking the lock
CbLockNoMutex ==
    /\ cbPc = "lock"
    /\ cbPc' = "push"
    /\ UNCHANGED <<buildVars, fnVars, mainLocals, recording, lockOwner, poisoned,
                   cbLeft, cbCalls, mainPc, stdout>>

\* recording_writer.lock().unwrap(): blocks while the guard is held
CbLock ==
    /\ cbPc = "lock"
    /\ lockOwner = "none"
    /\ ~poisoned
    /\ lockOwner' = "cb"
    /\ cbPc' = "push"
    /\ UNCHANGED <<buildVars, fnVars, mainLocals, recording, poisoned, cbLeft,
                   cbCalls, mainPc, stdout>>

\* lock() on a poisoned Mutex is an Err: unwrap panics
CbLockPoisoned ==
    /\ cbPc = "lock"
    /\ lockOwner = "none"
    /\ poisoned
    /\ cbPc' = "panicked"
    /\ UNCHANGED <<buildVars, fnVars, mainLocals, recording, lockOwner, poisoned,
                   cbLeft, cbCalls, mainPc, stdout>>

\* samples of the slice the loop still visits after a push made the length len
LeftAfterPush(left, len) ==
    IF len >= RecordDurationSamples THEN 0 ELSE left - 1

\* one iteration of the for loop: push, then break once the limit is reached
CbPush ==
    /\ cbPc = "push"
    /\ cbLeft > 0
    /\ \E sample \in CapturedValues : recording' = Append(recording, sample)
    /\ cbLeft' = LeftAfterPush(cbLeft, Len(recording'))
    /\ UNCHANGED <<buildVars, fnVars, mainLocals, lockOwner, poisoned, cbPc,
                   cbCalls, mainPc, stdout>>

\* the closure returns: its guard is dropped
CbReturn ==
    /\ cbPc = "push"
    /\ cbLeft = 0
    /\ cbPc' = "idle"
    /\ lockOwner' = "none"
    /\ UNCHANGED <<buildVars, fnVars, mainLocals, recording, poisoned, cbLeft,
                   cbCalls, mainPc, stdout>>

MainPlay ==
    /\ mainPc = "play"
    /\ mainPc' = "sleep"
    /\ UNCHANGED <<buildVars, fnVars, cbVars, mainLocals, recording, lockOwner,
                   poisoned, stdout>>

\* thread::sleep returns
MainSleep ==
    /\ mainPc = "sleep"
    /\ mainPc' = "lock"
    /\ UNCHANGED <<buildVars, fnVars, cbVars, mainLocals, recording, lockOwner,
                   poisoned, stdout>>

\* let mut recording = recording.lock().unwrap();
MainLock ==
    /\ mainPc = "lock"
    /\ lockOwner = "none"
    /\ lockOwner' = "main"
    /\ raw' = recording
    /\ stdout' = Append(stdout, Line("Recording complete.", <<>>))
    /\ mainPc' = "remove_dc_offset"
    /\ UNCHANGED <<buildVars, fnVars, cbVars, recording, poisoned, random_data,
                   rec, mono_score, runs_score>>

MainRemoveDcOffset ==
    /\ mainPc = "remove_dc_offset"
    /\ recording' = remove_dc_offset(recording)
    /\ stdout' = Append(stdout, Line("Offsetting complete.", <<>>))
    /\ mainPc' = "normalize_audio"
    /\ UNCHANGED <<buildVars, fnVars, cbVars, mainLocals, lockOwner, poisoned>>

MainNormalize ==
    /\ mainPc = "normalize_audio"
    /\ recording' = normalize_audio(recording, One)
    /\ stdout' = Append(stdout, Line("normalization complete.", <<>>))
    /\ mainPc' = "extract_random_data"
    /\ UNCHANGED <<buildVars, fnVars, cbVars, mainLocals, lockOwner, poisoned>>

\* a panic unwinds main: the guard is dropped and poisons the Mutex
Unwind ==
    /\ mainPc' = "panicked"
    /\ lockOwner' = "none"
    /\ poisoned' = TRUE

MainExtract ==
    /\ mainPc = "extract_random_data"
    /\ LET r == extract_random_data(recording, NumLsb, OutputLength)
       IN /\ r.outcome = "ok"
          /\ random_data' = r.data
    /\ mainPc' = "print_random_data_as_hex"
    /\ UNCHANGED <<buildVars, fnVars, cbVars, recording, lockOwner, poisoned, raw,
                   rec, mono_score, runs_score, stdout>>

MainExtractPanics ==
    /\ mainPc = "extract_random_data"
    /\ extract_random_data(recording, NumLsb, OutputLength).outcome = "panic"
    /\ Unwind
    /\ UNCHANGED <<buildVars, fnVars, cbVars, mainLocals, recording, stdout>>

MainPrintHex ==
    /\ mainPc = "print_random_data_as_hex"
    /\ stdout' = Append(stdout, print_random_data_as_hex(random_data))
    /\ mainPc' = "f32_to_u8"
    /\ UNCHANGED <<buildVars, fnVars, cbVars, mainLocals, recording, lockOwner,
                   poisoned>>

MainF32ToU8 ==
    /\ mainPc = "f32_to_u8"
    /\ rec' = f32_to_u8(recording)
    /\ mainPc' = "monobit_test"
    /\ UNCHANGED <<buildVars, fnVars, cbVars, recording, lockOwner, poisoned, raw,
                   random_data, mono_score, runs_score, stdout>>

MainMonobit ==
    /\ mainPc = "monobit_test"
    /\ mono_score' = monobit_test(rec)
    /\ stdout' = Append(stdout, Line("Is output (monobit) random: ", Bool(mono_score')))
    /\ mainPc' = "runs_test"
    /\ UNCHANGED <<buildVars, fnVars, cbVars, recording, lockOwner, poisoned, raw,
                   random_data, rec, runs_score>>

MainRuns ==
    /\ mainPc = "runs_test"
    /\ LET r == runs_test(rec)
       IN /\ r.outcome = "ok"
          /\ runs_score' = r.value
    /\ stdout' = Append(stdout, Line("Is output (runs) random: ", Bool(runs_score')))
    /\ mainPc' = "return"
    /\ UNCHANGED <<buildVars, fnVars, cbVars, recording, lockOwner, poisoned, raw,
                   random_data, rec, mono_score>>

MainRunsPanics ==
    /\ mainPc = "runs_test"
    /\ runs_test(rec).outcome = "panic"
    /\ Unwind
    /\ UNCHANGED <<buildVars, fnVars, cbVars, mainLocals, recording, stdout>>

\* main's locals are dropped in reverse order: the guard first
MainReturn ==
    /\ mainPc = "return"
    /\ lockOwner' = "none"
    /\ mainPc' = "done"
    /\ UNCHANGED <<buildVars, fnVars, cbVars, mainLocals, recording, poisoned,
                   stdout>>

\* ... then input_stream, which stops the callbacks
MainExit ==
    /\ mainPc \in {"done", "panicked"}
    /\ mainPc' = "exit"
    /\ UNCHANGED <<buildVars, fnVars, cbVars, mainLocals, recording, lockOwner,
                   poisoned, stdout>>

Next ==
    \/ CbInvoke \/ CbLock \/ CbLockPoisoned \/ CbPush \/ CbReturn
    \/ MainPlay \/ MainSleep \/ MainLock \/ MainRemoveDcOffset \/ MainNormalize
    \/ MainExtract \/ MainExtractPanics \/ MainPrintHex \/ MainF32ToU8
    \/ MainMonobit \/ MainRuns \/ MainRunsPanics \/ MainReturn \/ MainExit

Spec == Init /\ [][Next]_vars

-----------------------------------------------------------------------------
(* extract_random_data applied to every input within the bounds.           *)

\* the variables of main and the callback, at rest
DriverAtRest ==
    /\ recording = <<>>
    /\ lockOwner = "none"
    /\ poisoned = FALSE
    /\ cbPc = "idle"
    /\ cbLeft = 0
    /\ cbCalls = 0
    /\ mainPc = "exit"
    /\ raw = <<>>
    /\ random_data = <<>>
    /\ rec = <<>>
    /\ mono_score = FALSE
    /\ runs_score = FALSE
    /\ stdout = <<>>

driverVars == <<recording, lockOwner, poisoned, cbPc, cbLeft, cbCalls, mainPc, raw,
                random_data, rec, mono_score, runs_score, stdout>>

InitExtract ==
    /\ nanSign = 0
    /\ overflowChecks \in BOOLEAN
    /\ DriverAtRest
    /\ fn = "extract_random_data"
    /\ arg \in [ samples       : SeqsUpTo(ExtractValues, MaxSamples),
                 num_lsb       : 1..8,
                 output_length : 0..MaxOutputLength ]
    /\ ret = NoRet
    /\ scan = NoScan

CallExtract ==
    /\ fn = "extract_random_data"
    /\ ret = NoRet
    /\ ret' = extract_random_data(arg.samples, arg.num_lsb, arg.output_length)
    /\ UNCHANGED <<buildVars, driverVars, fn, arg, scan>>

NextExtract == CallExtract

SpecExtract == InitExtract /\ [][NextExtract]_vars

-----------------------------------------------------------------------------
(* monobit_test and runs_test applied to every byte sequence within the    *)
(* bounds; runs_test one bit of its scan at a time.                        *)

InitTests ==
    /\ nanSign = 0
    /\ overflowChecks = FALSE
    /\ DriverAtRest
    /\ \/ /\ fn = "monobit_test"
          /\ arg \in SeqsUpTo(ByteValues, MaxMonobitBytes)
       \/ /\ fn = "runs_test"
          /\ arg \in SeqsUpTo(ByteValues, MaxRunsBytes)
    /\ ret = NoRet
    /\ scan = NoScan

CallMonobit ==
    /\ fn = "monobit_test"
    /\ ret = NoRet
    /\ ret' = [outcome |-> "ok", value |-> monobit_test(arg)]
    /\ UNCHANGED <<buildVars, driverVars, fn, arg, scan>>

\* let mut prev_bit = data[0] & 0x80; ... : the locals before the loops
RunsEnter ==
    /\ fn = "runs_test"
    /\ ret = NoRet
    /\ scan = NoScan
    /\ Len(arg) > 0
    /\ scan' = [pc |-> "loop", k |-> 0, st |-> RunsStart(arg)]
    /\ UNCHANGED <<buildVars, driverVars, fn, arg, ret>>

\* data[0] on an empty slice
RunsEnterPanics ==
    /\ fn = "runs_test"
    /\ ret = NoRet
    /\ scan = NoScan
    /\ Len(arg) = 0
    /\ ret' = [outcome |-> "panic", value |-> FALSE]
    /\ UNCHANGED <<buildVars, driverVars, fn, arg, scan>>

\* one iteration of the inner loop: bit k of the stream
RunsBit ==
    /\ fn = "runs_test"
    /\ scan.pc = "loop"
    /\ scan.k < 8 * Len(arg)
    /\ scan' = [pc |-> "loop", k |-> scan.k + 1,
                st |-> RunsStep(scan.st, BitOf(At(arg, scan.k \div 8), scan.k % 8))]
    /\ UNCHANGED <<buildVars, driverVars, fn, arg, ret>>

\* the loops are over: p_value and the verdict
RunsReturn ==
    /\ fn = "runs_test"
    /\ scan.pc = "loop"
    /\ scan.k = 8 * Len(arg)
    /\ ret' = [outcome |-> "ok", value |-> RunsVerdict(scan.st, Len(arg) * 8)]
    /\ scan' = [scan EXCEPT !.pc = "done"]
    /\ UNCHANGED <<buildVars, driverVars, fn, arg>>

NextTests == CallMonobit \/ RunsEnter \/ RunsEnterPanics \/ RunsBit \/ RunsReturn

SpecTests == InitTests /\ [][NextTests]_vars

-----------------------------------------------------------------------------
(* Properties.                                                             *)

Applied == ret.outcome # "pending"

\* C1: for 1 <= output_length <= len - 1 extract_random_data returns exactly
\* output_length bytes (the strided walk does not run out of samples first)
\* and reads only indices 0 .. len - 1.
C1_ExactLength ==
    ( /\ fn = "extract_random_data"
      /\ Applied
      /\ 1 <= arg.output_length
      /\ arg.output_length <= Len(arg.samples) - 1 )
    => /\ ret.outcome = "ok"
       /\ Len(ret.data) = arg.output_length
       /\ ret.reads \subseteq 0..(Len(arg.samples) - 1)

\* a call with stride 2 that stops on the length, before the range ends
C1_Witness ==
    /\ fn = "extract_random_data"
    /\ ret.outcome = "ok"
    /\ Len(arg.samples) = 5
    /\ arg.output_length = 2
    /\ Len(ret.data) = 2
    /\ ret.reads = {0, 1, 2, 3}

\* C2: with output_length > len - 1 (stride 0) extract_random_data ends with
\* the error InsufficientSamples: no panic, no bytes returned.
C2_RejectsInsufficientSamples ==
    ( /\ fn = "extract_random_data"
      /\ Applied
      /\ Len(arg.samples) >= 1
      /\ arg.output_length >= 1
      /\ arg.output_length > Len(arg.samples) - 1 )
    => ret.outcome = "InsufficientSamples"

\* C3: the bytes main hands to monobit_test and runs_test are the bytes
\* extract_random_data returned.
C3_TestsRunOnExtractedBytes ==
    mainPc \in {"monobit_test", "runs_test", "return", "done"} => rec = random_data

\* the value (0 or 1) of bit k of the stream, most significant bit first
BitValue(data, k) == (At(data, k \div 8) \div P2(7 - (k % 8))) % 2

\* adjacent pairs of different bit values among the first k bits
Changes(data, k) ==
    Cardinality({p \in 1..(k - 1) : BitValue(data, p) # BitValue(data, p - 1)})

\* C4: after k bits of the scan run_count is the number of positions below k
\* whose bit value differs from the preceding bit's.
C4_CountsBitValueChanges ==
    (fn = "runs_test" /\ scan.pc \in {"loop", "done"})
    => scan.st.run_count = Changes(arg, scan.k)

\* the set bits of a byte sequence, as positions
SetBits(data) ==
    {ij \in (1..Len(data)) \X (0..7) : (data[ij[1]] \div P2(ij[2])) % 2 = 1}

Alternating(data) ==
    \A i \in 1..Len(data) : data[i] = IF i % 2 = 1 THEN 170 ELSE 85

\* C5: monobit_test on L > 0 bytes with k set bits is true exactly when
\* 45 * 8L < 100 * k < 55 * 8L; 0xAA, 0x55, ... passes, all zeros fails.
C5_MonobitBand ==
    (fn = "monobit_test" /\ Applied /\ Len(arg) > 0)
    => LET k == Cardinality(SetBits(arg))
           N == 8 * Len(arg)
       IN /\ ret.value <=> (45 * N < 100 * k /\ 100 * k < 55 * N)
          /\ Alternating(arg) => ret.value
          /\ (\A i \in 1..Len(arg) : arg[i] = 0) => ~ret.value

\* a sequence whose proportion is exactly 0.45: the band excludes its end
C5_Witness ==
    /\ fn = "monobit_test"
    /\ Applied
    /\ Len(arg) = 5
    /\ Cardinality(SetBits(arg)) = 18
    /\ ret.value = FALSE

\* C6: every byte extract_random_data returns is below 2^num_lsb.
C6_HighBitsZero ==
    (fn = "extract_random_data" /\ ret.outcome = "ok")
    => \A i \in 1..Len(ret.data) : ret.data[i] < P2(arg.num_lsb)

\* a call whose first difference has bits set above the three it keeps
C6_Witness ==
    /\ fn = "extract_random_data"
    /\ ret.outcome = "ok"
    /\ arg.num_lsb = 3
    /\ Len(ret.data) >= 1
    /\ ret.data[1] # 0
    /\ AsU8(to_bits(Sub(At(arg.samples, 1), At(arg.samples, 0)))) >= 8

\* the recording main took is empty, or its peak is 0 once the mean is removed
Degenerate(samples) ==
    \/ Len(samples) = 0
    \/ IsZero(MaxSample(remove_dc_offset(samples)))

MainHasLocked == mainPc \notin {"play", "sleep", "lock"}

HexDigitsPrinted ==
    \E i \in 1..Len(stdout) : stdout[i][1] = "Random data (hex): " /\ stdout[i][2] # <<>>

\* C7: on an empty or all-equal recording conditioning fails and the run
\* aborts: no bytes are extracted from it and none are printed.
C7_DegenerateSignalAborts ==
    (MainHasLocked /\ Degenerate(raw)) => (random_data = <<>> /\ ~HexDigitsPrinted)

\* the statements of main that read or write the buffer under the guard
Processing ==
    {"remove_dc_offset", "normalize_audio", "extract_random_data",
     "print_random_data_as_hex", "f32_to_u8", "monobit_test", "runs_test"}

\* C8: from main's lock to its last read main holds the lock, and while it
\* does no step of the callback changes the recording.
C8_BufferStableUnderMainsLock ==
    [][ /\ mainPc \in Processing => lockOwner = "main"
        /\ (lockOwner = "main" /\ mainPc' = mainPc) => recording' = recording ]_vars

\* the callback was invoked and waits for the lock while main runs the tests
C8_Witness ==
    /\ lockOwner = "main"
    /\ mainPc = "runs_test"
    /\ cbPc = "lock"
    /\ Len(recording) > 0

\* C9: the recording never holds more than record_duration_samples samples.
C9_BufferBounded == Len(recording) <= RecordDurationSamples

\* C10: bucket 0 of run_lengths never exceeds 1, and runs_test is false on
\* every sequence of 3 or more bytes.
C10_FirstBucketAtMostOne ==
    (fn = "runs_test" /\ scan.pc \in {"loop", "done"})
    => /\ At(scan.st.run_lengths, 0) <= 1
       /\ (scan.pc = "done" /\ Len(arg) >= 3)
          => (ret.outcome = "ok" /\ ret.value = FALSE)

\* a finished scan of 3 bytes with six or more transitions counted
C10_Witness ==
    /\ fn = "runs_test"
    /\ scan.pc = "done"
    /\ Len(arg) = 3
    /\ scan.st.run_count >= 6
    /\ scan.st.run_lengths = <<1, 1, 1, 1, 1, 1>>
    /\ ret.value = FALSE

====
